---- MODULE Spec2Model ----
(***************************************************************************)
(* OIL-Logistics: the inventory, purchase and sales ledgers kept in three *)
(* CSV files (data/inventory.csv, data/purchases.csv, data/sales.csv) and *)
(* the Streamlit pages that load them, change them and save them back.    *)
(*                                                                         *)
(* Quantities are QuantityMT values, counted in whole units.  A script    *)
(* run of a page loads the files it needs, runs at most one handler and   *)
(* saves whole files.                                                      *)
(*   Spec       script runs made one after the other, the clock standing  *)
(*   TimedSpec  the same with the clock moving                            *)
(*   ConcSpec   script runs one after the other, then one script run of   *)
(*              each session, their file reads and writes interleaved     *)
(*   QuoteSpec  calls of the two calculate_sale_price functions           *)
(* The history variables record what the handlers did; no handler reads   *)
(* them, nor the uid that tells the logged purchases apart.               *)
(***************************************************************************)
EXTENDS Integers, Sequences, FiniteSets, TLC

\* ------------------------------------------------------------- bounds
\* The largest quantity a form is given.
MaxQty == 2
\* The last second of the clock.
MaxClock == 2
\* How many script runs that run a handler a behaviour holds.
MaxRuns == 4
\* How many sessions there are; each makes one script run.
NumSessions == 2
\* The largest distance calculate_sale_price is given.
MaxDist == 3
\* The last day of the year calculate_sale_price is called on.
MaxDay == 2

\* ---------------------------------------------------------- constants
\* Two of the four OIL_TYPES.
OIL_TYPES == {"Palm Oil", "Palm Degummed"}
InventoryTypes == {"Crude", "Refined"}
SHIPMENT_STATUSES == {"In Transit", "At Port", "Reached Factory"}
ORDER_STATUSES == {"Under Process", "Confirmed", "Dispatched", "Fulfilled"}
Sessions == 1..NumSessions
\* The script runs made one at a time before the sessions start theirs.
PrefixRuns == MaxRuns - 1
\* Distances offered to the sales form (DistanceKM, min_value=0).
Distances == {0, 1}

VARIABLES
    inventory,  \* inventory.csv: OilType -> InventoryType -> QuantityMT
    purchases,  \* purchases.csv: the rows, in file order
    sales,      \* sales.csv: the rows, in file order
    clock,      \* int(time.time())
    quoted,     \* what calculate_sale_price was last given and returned
    rejected,   \* the form whose submit handler last turned its input down
    pc,         \* per session: where its script run stands
    sessPur,    \* per session: the purchases it loaded
    sessSal,    \* per session: the sales it loaded
    sessInv,    \* per session: the inventory it loaded
    pendInv,    \* per session: the inventory its second write will store
    pendSal,    \* per session: the sales its second write will store
    ledger,     \* history: per grade, what the handlers credited, refined, sold
    credits,    \* history: per logged purchase, how often a handler credited it
    calls,      \* history: how many purchase status changes were saved
    again,      \* history: how many rows were saved as Reached Factory once more
    nextUid,    \* history: the number of the next logPurchase call
    runs,       \* history: how many script runs, one at a time, ran a handler
    started     \* history: how many script runs the sessions started

files == <<inventory, purchases, sales>>
sessVars == <<pc, sessPur, sessSal, sessInv, pendInv, pendSal>>
hist == <<ledger, credits, calls, again, nextUid, runs, started>>
vars == <<inventory, purchases, sales, clock, quoted, rejected, pc, sessPur,
          sessSal, sessInv, pendInv, pendSal, ledger, credits, calls, again,
          nextUid, runs, started>>

\* ------------------------------------------------------ initial files
ZeroInventory == [g \in OIL_TYPES |-> [Crude |-> 0, Refined |-> 0]]

\* --------------------------------------------------------------- pricing
\* OIL_DENSITIES, in thousandths of a kg per litre.
OIL_DENSITIES == ("Palm Oil" :> 915) @@ ("Palm Degummed" :> 918)
TRANSPORT_COST_PER_KM == 12
\* IGST_RATE, in hundredths.
IGST_RATE == 5

\* time.localtime().tm_yday of a clock value, time zones and leap years aside.
tm_yday(now) == ((now \div 86400) % 365) + 1

\* get_simulated_oil_prices: the current price per MT of every grade.
get_simulated_oil_prices(day) ==
    LET base_price == 80000 + day * 15 IN
    ("Palm Oil" :> base_price - 5000) @@ ("Palm Degummed" :> base_price - 4500)

\* round(whole + n / m) for n >= 0 and m > 0.  Python rounds a half to even;
\* for the prices of the days, quantities and distances within the bounds no
\* half arises, and the floating-point result is this one.
Round(whole, n, m) ==
    LET f == whole + (n \div m)
        r == n % m IN
    IF 2 * r < m THEN f
    ELSE IF 2 * r > m THEN f + 1
    ELSE IF f % 2 = 0 THEN f ELSE f + 1

\* calculate_sale_price below its guard, the same lines in both files, in
\* exact arithmetic: sub_total is scaled / density, price_per_lt is in
\* hundredths.
PriceBreakdown(oil_type, quantity_mt, distance_km, day) ==
    LET density == OIL_DENSITIES[oil_type]
        current_price == get_simulated_oil_prices(day)[oil_type]
        scaled == current_price * quantity_mt * density
                    + quantity_mt * 1000 * 1000 * 10
                    + distance_km * TRANSPORT_COST_PER_KM * density
        den == 100 * density
        final_price == Round((100 + IGST_RATE) * (scaled \div den),
                             (100 + IGST_RATE) * (scaled % den), den)
        price_per_lt == Round(0, final_price * density, quantity_mt * 10000)
    IN  [final_price |-> final_price, price_per_lt |-> price_per_lt]

ZeroPrice == [final_price |-> 0, price_per_lt |-> 0]

\* A calculate_sale_price that leaves the transport cost out.
calculate_sale_price_no_transport(oil_type, quantity_mt, distance_km, day) ==
    IF quantity_mt <= 0 \/ distance_km <= 0 THEN ZeroPrice
    ELSE PriceBreakdown(oil_type, quantity_mt, 0, day)

\* calculate_sale_price of app.py.
calculate_sale_price(oil_type, quantity_mt, distance_km, day) ==
    IF quantity_mt <= 0 \/ distance_km <= 0 THEN ZeroPrice
    ELSE PriceBreakdown(oil_type, quantity_mt, distance_km, day)

\* calculate_sale_price of the Sales Management page.
sales_calculate_sale_price(oil_type, quantity_mt, distance_km, day) ==
    IF quantity_mt <= 0 THEN ZeroPrice
    ELSE PriceBreakdown(oil_type, quantity_mt, distance_km, day)

NoQuote ==
    [file |-> "", oil_type |-> "", quantity_mt |-> 0, distance_km |-> 0,
     day |-> 0, final_price |-> 0, price_per_lt |-> 0]

Quoted(file, oil_type, quantity_mt, distance_km, day, price) ==
    [file |-> file, oil_type |-> oil_type, quantity_mt |-> quantity_mt,
     distance_km |-> distance_km, day |-> day,
     final_price |-> price.final_price, price_per_lt |-> price.price_per_lt]

\* ------------------------------------------------- Inventory & Refining
\* The branch the refining_form submit handler takes.
RefineOutcomeNoLimit(inv, g, x) ==
    IF x <= 0 THEN "warning" ELSE "success"

\* The branches without the test of a quantity <= 0.
RefineOutcomeNoFloor(inv, g, x) ==
    IF x > inv[g].Crude THEN "error" ELSE "success"

RefineOutcome(inv, g, x) ==
    IF x <= 0 THEN "warning"
    ELSE IF x > inv[g].Crude THEN "error"
    ELSE "success"

\* What the form is recorded as having turned down: st.warning or st.error.
RefineRejected(outcome) == "refining_form " \o outcome

RefineInventoryNoDebit(inv, g, x) ==
    [inv EXCEPT ![g].Refined = @ + x]

RefineInventory(inv, g, x) ==
    [inv EXCEPT ![g].Crude = @ - x, ![g].Refined = @ + x]

\* --------------------------------------------------- Purchase Management
PurchaseFormValid(supplier, q) == ~(~supplier \/ q <= 0)

\* A purchase logged as arrived.
NewPurchaseArrived(now, uid, g, q) ==
    [ShipmentID |-> now, OilType |-> g, QuantityMT |-> q,
     Status |-> "Reached Factory", uid |-> uid]

NewPurchase(now, uid, g, q) ==
    [ShipmentID |-> now, OilType |-> g, QuantityMT |-> q,
     Status |-> "In Transit", uid |-> uid]

\* st.data_editor: the loaded rows with the Status column as edited.
EditedStatus(rows, e) ==
    [i \in DOMAIN rows |-> [rows[i] EXCEPT !.Status = e[i]]]

EntersFactoryAnyPrior(orig, new) == new.Status = "Reached Factory"

\* Whether the loop credits the row.
EntersFactory(orig, new) ==
    /\ orig.Status # new.Status
    /\ new.Status = "Reached Factory"
    /\ orig.Status # "Reached Factory"

\* inventory.loc[inv_index[0], 'QuantityMT'] += quantity; the file holds a
\* Crude row for every grade.
CreditCrude(inv, g, q) == [inv EXCEPT ![g].Crude = @ + q]

\* The loop left at its first credit.
RECURSIVE CreditRowsFirstOnly(_, _, _, _)
CreditRowsFirstOnly(pur, edited, inv, i) ==
    IF i > Len(pur) THEN inv
    ELSE IF EntersFactory(pur[i], edited[i])
         THEN CreditCrude(inv, edited[i].OilType, edited[i].QuantityMT)
         ELSE CreditRowsFirstOnly(pur, edited, inv, i + 1)

\* The loop over edited_df.iterrows(), from row i on.
RECURSIVE CreditRows(_, _, _, _)
CreditRows(pur, edited, inv, i) ==
    IF i > Len(pur) THEN inv
    ELSE CreditRows(pur, edited,
                    IF EntersFactory(pur[i], edited[i])
                    THEN CreditCrude(inv, edited[i].OilType, edited[i].QuantityMT)
                    ELSE inv,
                    i + 1)

\* ------------------------------------------------------ Sales Management
\* The validation without its distance test.
SaleFormValidAnyDistance(vendor, dest, q, dist) ==
    ~(~vendor \/ ~dest \/ q <= 0)

SaleFormValid(vendor, dest, q, dist) ==
    ~(~vendor \/ ~dest \/ q <= 0 \/ dist <= 0)

BookStatusStrict(inv, g, q) ==
    IF q >= inv[g].Refined THEN "Under Process" ELSE "Confirmed"

BookStatus(inv, g, q) ==
    IF q > inv[g].Refined THEN "Under Process" ELSE "Confirmed"

\* A deduction taken from the Crude row.
DebitCrudeInstead(inv, g, q) == [inv EXCEPT ![g].Crude = @ - q]

DebitRefined(inv, g, q) == [inv EXCEPT ![g].Refined = @ - q]

\* final_price of the script run (the call above the price preview), for every
\* time of the run and everything the form's widgets can hold.
preview_final_price ==
    [now \in 1..MaxClock, oil_type \in OIL_TYPES, quantity_mt \in 0..MaxQty,
     distance_km \in Distances |->
        sales_calculate_sale_price(oil_type, quantity_mt, distance_km,
                                   tm_yday(now)).final_price]

NewSale(now, dist, g, q, status) ==
    [OrderID |-> now, DistanceKM |-> dist, OilType |-> g, QuantityMT |-> q,
     SalePrice |-> preview_final_price[now, g, q, dist],
     Status |-> status]

\* pd.concat([sales, new_sale]), with every backlogged order of the new
\* order's grade made Confirmed.
ConcatSaleResolving(sal, row) ==
    Append([i \in DOMAIN sal |->
               IF sal[i].Status = "Under Process" /\ sal[i].OilType = row.OilType
               THEN [sal[i] EXCEPT !.Status = "Confirmed"] ELSE sal[i]],
           row)

\* pd.concat([sales, new_sale], ignore_index=True)
ConcatSale(sal, row) == Append(sal, row)

\* st.data_editor of the sales: with the other columns open too, a Fulfilled
\* order's quantity set to zero.
EditedSalesOpen(rows, e) ==
    [i \in DOMAIN rows |->
        IF e[i] = "Fulfilled" /\ rows[i].Status # "Fulfilled"
        THEN [rows[i] EXCEPT !.Status = e[i], !.QuantityMT = 0]
        ELSE [rows[i] EXCEPT !.Status = e[i]]]

\* st.data_editor of the sales: every column but Status is disabled.
EditedSales(rows, e) == [i \in DOMAIN rows |-> [rows[i] EXCEPT !.Status = e[i]]]

\* --------------------------------------------------------------- history
StatusChanges(pur, edited) ==
    Cardinality({i \in DOMAIN pur : pur[i].Status # edited[i].Status})

\* The rows a save stores as Reached Factory that were loaded as such.
ArrivedAgain(pur, edited) ==
    Cardinality({i \in DOMAIN pur : /\ pur[i].Status = "Reached Factory"
                                    /\ edited[i].Status = "Reached Factory"})

CountCredits(cr, pur, edited) ==
    [u \in DOMAIN cr |->
        cr[u] + Cardinality({i \in DOMAIN pur :
                                /\ pur[i].uid = u
                                /\ EntersFactory(pur[i], edited[i])})]

RECURSIVE CreditedQty(_, _, _, _)
CreditedQty(pur, edited, g, i) ==
    IF i > Len(pur) THEN 0
    ELSE (IF EntersFactory(pur[i], edited[i]) /\ pur[i].OilType = g
          THEN pur[i].QuantityMT ELSE 0) + CreditedQty(pur, edited, g, i + 1)

LedgerCredit(l, pur, edited) ==
    [g \in OIL_TYPES |->
        [l[g] EXCEPT !.credited = @ + CreditedQty(pur, edited, g, 1)]]

\* ------------------------------------------------------------------ Init
Init ==
    /\ inventory = ZeroInventory
    /\ purchases = <<>>
    /\ sales = <<>>
    /\ clock = 1
    /\ quoted = NoQuote
    /\ rejected = ""
    /\ pc = [s \in Sessions |-> "idle"]
    /\ sessPur = [s \in Sessions |-> <<>>]
    /\ sessSal = [s \in Sessions |-> <<>>]
    /\ sessInv = [s \in Sessions |-> ZeroInventory]
    /\ pendInv = [s \in Sessions |-> ZeroInventory]
    /\ pendSal = [s \in Sessions |-> <<>>]
    /\ ledger = [g \in OIL_TYPES |-> [credited |-> 0, refined |-> 0, sold |-> 0]]
    /\ credits = [u \in 1..MaxRuns |-> 0]
    /\ calls = 0
    /\ again = 0
    /\ nextUid = 1
    /\ runs = 0
    /\ started = 0

\* time.time() moves on.
Tick ==
    /\ clock < MaxClock
    /\ clock' = clock + 1
    /\ UNCHANGED <<files, sessVars, hist, quoted, rejected>>

\* ------------------------------------------- script runs, one at a time
\* new_purchase_form submitted.
LogPurchase(supplier, g, q) ==
    /\ runs < MaxRuns
    /\ IF PurchaseFormValid(supplier, q)
       THEN /\ purchases' = Append(purchases, NewPurchase(clock, nextUid, g, q))
            /\ nextUid' = nextUid + 1
            /\ UNCHANGED rejected
       ELSE /\ rejected' = "new_purchase_form"
            /\ UNCHANGED <<purchases, nextUid>>
    /\ runs' = runs + 1
    /\ UNCHANGED <<inventory, sales, clock, quoted, sessVars, ledger, credits, calls, again, started>>

\* purchase_editor changed: e is the Status column as edited.
UpdatePurchaseStatus(e) ==
    LET edited == EditedStatus(purchases, e) IN
    /\ runs < MaxRuns
    /\ edited # purchases
    /\ purchases' = edited
    /\ inventory' = CreditRows(purchases, edited, inventory, 1)
    /\ credits' = CountCredits(credits, purchases, edited)
    /\ ledger' = LedgerCredit(ledger, purchases, edited)
    /\ calls' = calls + StatusChanges(purchases, edited)
    /\ again' = again + ArrivedAgain(purchases, edited)
    /\ runs' = runs + 1
    /\ UNCHANGED <<sales, clock, quoted, rejected, sessVars, nextUid, started>>

\* refining_form submitted.
Refine(g, x) ==
    /\ runs < MaxRuns
    /\ IF RefineOutcome(inventory, g, x) = "success"
       THEN /\ inventory' = RefineInventory(inventory, g, x)
            /\ ledger' = [ledger EXCEPT ![g].refined = @ + x]
            /\ UNCHANGED rejected
       ELSE /\ rejected' = RefineRejected(RefineOutcome(inventory, g, x))
            /\ UNCHANGED <<inventory, ledger>>
    /\ runs' = runs + 1
    /\ UNCHANGED <<purchases, sales, clock, quoted, sessVars, credits, calls, again, nextUid, started>>

\* new_sale_form submitted.
BookOrder(vendor, dest, dist, g, q) ==
    /\ runs < MaxRuns
    /\ IF SaleFormValid(vendor, dest, q, dist)
       THEN LET status == BookStatus(inventory, g, q) IN
            /\ IF status = "Confirmed"
               THEN /\ inventory' = DebitRefined(inventory, g, q)
                    /\ ledger' = [ledger EXCEPT ![g].sold = @ + q]
               ELSE UNCHANGED <<inventory, ledger>>
            /\ sales' = ConcatSale(sales, NewSale(clock, dist, g, q, status))
            /\ UNCHANGED rejected
       ELSE /\ rejected' = "new_sale_form"
            /\ UNCHANGED <<inventory, sales, ledger>>
    /\ runs' = runs + 1
    /\ UNCHANGED <<purchases, clock, quoted, sessVars, credits, calls, again, nextUid, started>>

\* sales_editor changed.
UpdateSalesStatus(e) ==
    LET edited == EditedSales(sales, e) IN
    /\ runs < MaxRuns
    /\ edited # sales
    /\ sales' = edited
    /\ runs' = runs + 1
    /\ UNCHANGED <<inventory, purchases, clock, quoted, rejected, sessVars, ledger, credits, calls, again, nextUid, started>>

Next ==
    \/ \E supplier \in BOOLEAN, g \in OIL_TYPES, q \in 0..MaxQty :
          LogPurchase(supplier, g, q)
    \/ \E e \in [DOMAIN purchases -> SHIPMENT_STATUSES] : UpdatePurchaseStatus(e)
    \/ \E g \in OIL_TYPES, x \in 0..MaxQty : Refine(g, x)
    \/ \E vendor \in BOOLEAN, dest \in BOOLEAN, dist \in Distances,
          g \in OIL_TYPES, q \in 0..MaxQty :
          BookOrder(vendor, dest, dist, g, q)
    \/ \E e \in [DOMAIN sales -> ORDER_STATUSES] : UpdateSalesStatus(e)

\* ------------------------------------- script runs of several sessions
AllIdle == \A s \in Sessions : pc[s] \in {"idle", "done"}

\* Session s starts its script run; the sessions are numbered as they start.
Start(s) ==
    /\ pc[s] = "idle"
    /\ started = s - 1
    /\ started' = started + 1

\* A session's script run is over: its loaded copies are dropped.
Finish(s) ==
    /\ pc' = [pc EXCEPT ![s] = "done"]
    /\ sessPur' = [sessPur EXCEPT ![s] = <<>>]
    /\ sessSal' = [sessSal EXCEPT ![s] = <<>>]
    /\ sessInv' = [sessInv EXCEPT ![s] = ZeroInventory]
    /\ pendInv' = [pendInv EXCEPT ![s] = ZeroInventory]
    /\ pendSal' = [pendSal EXCEPT ![s] = <<>>]

\* A session's script run is cut short: what it had not written is dropped.
Halt(s) ==
    /\ pc' = [pc EXCEPT ![s] = "stopped"]
    /\ sessPur' = [sessPur EXCEPT ![s] = <<>>]
    /\ sessSal' = [sessSal EXCEPT ![s] = <<>>]
    /\ sessInv' = [sessInv EXCEPT ![s] = ZeroInventory]
    /\ pendInv' = [pendInv EXCEPT ![s] = ZeroInventory]
    /\ pendSal' = [pendSal EXCEPT ![s] = <<>>]

\* No script run is under way: each is still to start, over or cut short.
NoneRunning == \A s \in Sessions : pc[s] \in {"idle", "done", "stopped"}

\* Purchase page, load_data: pd.read_csv(PURCHASES_FILE).
PurLoadPurchases(s) ==
    /\ Start(s)
    /\ pc' = [pc EXCEPT ![s] = "pur_read_inv"]
    /\ sessPur' = [sessPur EXCEPT ![s] = purchases]
    /\ UNCHANGED <<files, clock, quoted, rejected, sessSal, sessInv, pendInv, pendSal,
                   ledger, credits, calls, again, nextUid, runs>>

\* Purchase page, load_data: pd.read_csv(INVENTORY_FILE).
PurLoadInventory(s) ==
    /\ pc[s] = "pur_read_inv"
    /\ pc' = [pc EXCEPT ![s] = "pur_ready"]
    /\ sessInv' = [sessInv EXCEPT ![s] = inventory]
    /\ UNCHANGED <<files, clock, quoted, rejected, sessPur, sessSal, pendInv, pendSal, hist>>

\* new_purchase_form submitted in session s.
PurLog(s, supplier, g, q) ==
    /\ pc[s] = "pur_ready"
    /\ IF PurchaseFormValid(supplier, q)
       THEN /\ purchases' = Append(sessPur[s], NewPurchase(clock, nextUid, g, q))
            /\ nextUid' = nextUid + 1
            /\ UNCHANGED rejected
       ELSE /\ rejected' = "new_purchase_form"
            /\ UNCHANGED <<purchases, nextUid>>
    /\ Finish(s)
    /\ UNCHANGED <<inventory, sales, clock, quoted, ledger, credits, calls, again, runs, started>>

\* purchase_editor changed in session s: the loop, then save_data's first write.
PurEdit(s, e) ==
    LET edited == EditedStatus(sessPur[s], e) IN
    /\ pc[s] = "pur_ready"
    /\ edited # sessPur[s]
    /\ purchases' = edited
    /\ pendInv' = [pendInv EXCEPT
                      ![s] = CreditRows(sessPur[s], edited, sessInv[s], 1)]
    /\ credits' = CountCredits(credits, sessPur[s], edited)
    /\ calls' = calls + StatusChanges(sessPur[s], edited)
    /\ again' = again + ArrivedAgain(sessPur[s], edited)
    /\ ledger' = LedgerCredit(ledger, sessPur[s], edited)
    /\ pc' = [pc EXCEPT ![s] = "pur_save_inv"]
    /\ UNCHANGED <<inventory, sales, clock, quoted, rejected, sessPur, sessSal, sessInv, pendSal,
                   nextUid, runs, started>>

\* save_data's second write: inventory_df.to_csv(INVENTORY_FILE).
PurSaveInventory(s) ==
    /\ pc[s] = "pur_save_inv"
    /\ inventory' = pendInv[s]
    /\ Finish(s)
    /\ UNCHANGED <<purchases, sales, clock, quoted, rejected, hist>>

\* The script run of session s ends between save_data's two writes (the
\* server is stopped, to_csv raises): purchases.csv is written, inventory.csv
\* is not.
PurStop(s) ==
    /\ pc[s] = "pur_save_inv"
    /\ Halt(s)
    /\ UNCHANGED <<files, clock, quoted, rejected, hist>>

\* Sales page, load_data: pd.read_csv(SALES_FILE).
SalLoadSales(s) ==
    /\ Start(s)
    /\ pc' = [pc EXCEPT ![s] = "sal_read_inv"]
    /\ sessSal' = [sessSal EXCEPT ![s] = sales]
    /\ UNCHANGED <<files, clock, quoted, rejected, sessPur, sessInv, pendInv, pendSal,
                   ledger, credits, calls, again, nextUid, runs>>

\* Sales page, load_data: pd.read_csv(INVENTORY_FILE).
SalLoadInventory(s) ==
    /\ pc[s] = "sal_read_inv"
    /\ pc' = [pc EXCEPT ![s] = "sal_ready"]
    /\ sessInv' = [sessInv EXCEPT ![s] = inventory]
    /\ UNCHANGED <<files, clock, quoted, rejected, sessPur, sessSal, pendInv, pendSal, hist>>

\* new_sale_form submitted in session s: up to its first write.
SalBook(s, vendor, dest, dist, g, q) ==
    /\ pc[s] = "sal_ready"
    /\ IF ~SaleFormValid(vendor, dest, q, dist)
       THEN /\ rejected' = "new_sale_form"
            /\ Finish(s)
            /\ UNCHANGED <<files, ledger>>
       ELSE LET status == BookStatus(sessInv[s], g, q)
                row == NewSale(clock, dist, g, q, status) IN
            IF status = "Confirmed"
            THEN /\ inventory' = DebitRefined(sessInv[s], g, q)
                 /\ ledger' = [ledger EXCEPT ![g].sold = @ + q]
                 /\ pendSal' = [pendSal EXCEPT ![s] = ConcatSale(sessSal[s], row)]
                 /\ pc' = [pc EXCEPT ![s] = "sal_save_sales"]
                 /\ UNCHANGED <<purchases, sales, rejected, sessPur, sessSal,
                                sessInv, pendInv>>
            ELSE /\ sales' = ConcatSale(sessSal[s], row)
                 /\ Finish(s)
                 /\ UNCHANGED <<inventory, purchases, rejected, ledger>>
    /\ UNCHANGED <<clock, quoted, credits, calls, again, nextUid, runs, started>>

\* save_data(sales_df=sales) after a Confirmed booking.
SalSaveSales(s) ==
    /\ pc[s] = "sal_save_sales"
    /\ sales' = pendSal[s]
    /\ Finish(s)
    /\ UNCHANGED <<inventory, purchases, clock, quoted, rejected, hist>>

\* The script run of session s ends between save_data(inventory_df) and
\* save_data(sales_df): inventory.csv is written, sales.csv is not.
SalStop(s) ==
    /\ pc[s] = "sal_save_sales"
    /\ Halt(s)
    /\ UNCHANGED <<files, clock, quoted, rejected, hist>>

\* sales_editor changed in session s.
SalEdit(s, e) ==
    LET edited == EditedSales(sessSal[s], e) IN
    /\ pc[s] = "sal_ready"
    /\ edited # sessSal[s]
    /\ sales' = edited
    /\ Finish(s)
    /\ UNCHANGED <<inventory, purchases, clock, quoted, rejected, hist>>

\* Inventory & Refining page: load_inventory.
RefLoad(s) ==
    /\ Start(s)
    /\ pc' = [pc EXCEPT ![s] = "ref_ready"]
    /\ sessInv' = [sessInv EXCEPT ![s] = inventory]
    /\ UNCHANGED <<files, clock, quoted, rejected, sessPur, sessSal, pendInv, pendSal,
                   ledger, credits, calls, again, nextUid, runs>>

\* refining_form submitted in session s.
RefSubmit(s, g, x) ==
    /\ pc[s] = "ref_ready"
    /\ IF RefineOutcome(sessInv[s], g, x) = "success"
       THEN /\ inventory' = RefineInventory(sessInv[s], g, x)
            /\ ledger' = [ledger EXCEPT ![g].refined = @ + x]
            /\ UNCHANGED rejected
       ELSE /\ rejected' = RefineRejected(RefineOutcome(sessInv[s], g, x))
            /\ UNCHANGED <<inventory, ledger>>
    /\ Finish(s)
    /\ UNCHANGED <<purchases, sales, clock, quoted, credits, calls, again, nextUid, runs, started>>

SessionNext ==
    \E s \in Sessions :
        \/ PurLoadPurchases(s)
        \/ PurLoadInventory(s)
        \/ \E supplier \in BOOLEAN, g \in OIL_TYPES, q \in 0..MaxQty :
              PurLog(s, supplier, g, q)
        \/ \E e \in [DOMAIN sessPur[s] -> SHIPMENT_STATUSES] : PurEdit(s, e)
        \/ PurSaveInventory(s)
        \/ PurStop(s)
        \/ SalLoadSales(s)
        \/ SalLoadInventory(s)
        \/ \E vendor \in BOOLEAN, dest \in BOOLEAN, dist \in Distances,
              g \in OIL_TYPES, q \in 0..MaxQty :
              SalBook(s, vendor, dest, dist, g, q)
        \/ SalSaveSales(s)
        \/ SalStop(s)
        \/ \E e \in [DOMAIN sessSal[s] -> ORDER_STATUSES] : SalEdit(s, e)
        \/ RefLoad(s)
        \/ \E g \in OIL_TYPES, x \in 0..MaxQty : RefSubmit(s, g, x)

\* Script runs one after the other, then script runs of the sessions whose
\* file reads and writes interleave.
ConcNext ==
    \/ started = 0 /\ runs < PrefixRuns /\ Next
    \/ SessionNext

ConcSpec == Init /\ [][ConcNext]_vars

\* Script runs one after the other, within one second of the clock: the clock
\* is read only to build ShipmentID and OrderID.
Spec == Init /\ [][Next]_vars

\* The same with the clock moving.
TimedNext == Next \/ Tick

TimedSpec == Init /\ [][TimedNext]_vars

\* ------------------------------------------- calls of calculate_sale_price
\* calculate_sale_price of app.py, which no page calls: any arguments.
DashboardQuote(oil_type, quantity_mt, distance_km, day) ==
    /\ quoted' = Quoted("app.py", oil_type, quantity_mt, distance_km, day,
                        calculate_sale_price(oil_type, quantity_mt, distance_km, day))
    /\ UNCHANGED <<files, clock, rejected, sessVars, hist>>

\* The price preview of new_sale_form, from what its widgets hold.
SalesPreview(oil_type, quantity_mt, distance_km, day) ==
    /\ quoted' = Quoted("Sales_Management.py", oil_type, quantity_mt, distance_km, day,
                        sales_calculate_sale_price(oil_type, quantity_mt, distance_km, day))
    /\ UNCHANGED <<files, clock, rejected, sessVars, hist>>

QuoteNext ==
    \/ \E oil_type \in OIL_TYPES, quantity_mt \in -1..MaxQty,
          distance_km \in -1..MaxDist, day \in 1..MaxDay :
          DashboardQuote(oil_type, quantity_mt, distance_km, day)
    \/ \E oil_type \in OIL_TYPES, quantity_mt \in 0..MaxQty,
          distance_km \in 0..MaxDist, day \in 1..MaxDay :
          SalesPreview(oil_type, quantity_mt, distance_km, day)

QuoteSpec == Init /\ [][QuoteNext]_vars

\* ---------------------------------------------------------------- claims
RF == "Reached Factory"

\* C1: every stored quantity, of every grade and pool, is >= 0 in every state
\* reached from the all-zero inventory by script runs made one after another.
C1_NonNegativeInventory ==
    \A g \in OIL_TYPES, p \in InventoryTypes : inventory[g][p] >= 0

\* A grade whose whole stock was credited, refined and sold, down to zero.
C1_Witness ==
    \E g \in OIL_TYPES :
        /\ ledger[g].credited > 0
        /\ ledger[g].refined = ledger[g].credited
        /\ ledger[g].sold = ledger[g].refined
        /\ inventory[g].Crude = 0
        /\ inventory[g].Refined = 0

\* C2: whatever status changes are saved for a purchase order, its quantity is
\* credited to Crude at most once, and once when it is stored as Reached Factory.
C2_CreditedExactlyOnce ==
    \A i \in DOMAIN purchases :
        /\ credits[purchases[i].uid] <= 1
        /\ purchases[i].Status = RF => credits[purchases[i].uid] = 1

\* C3: the quantity the bookings took from Refined as Confirmed never exceeds
\* the quantity that was refined into it, also when two sessions book at once.
C3_NoDoubleSpend ==
    \A g \in OIL_TYPES : ledger[g].sold <= ledger[g].refined

\* C4: a booking with a vendor, a destination, a distance > 0 and a quantity
\* q > 0 of grade g, with Refined stock a, appends an order that is Under Process, with the inventory unchanged, when q > a, and
\* Confirmed, with Refined(g) down by q and nothing else changed, when q <= a.
C4_BookOrderEffect ==
    [][\A dist \in {d \in Distances : d > 0}, g \in OIL_TYPES, q \in 1..MaxQty :
          (files' # files /\ BookOrder(TRUE, TRUE, dist, g, q))
          => LET a == inventory[g].Refined
                 order == sales'[Len(sales')] IN
             /\ Len(sales') = Len(sales) + 1
             /\ q > a => /\ order.Status = "Under Process"
                         /\ inventory' = inventory
             /\ q <= a => /\ order.Status = "Confirmed"
                          /\ inventory'[g].Refined = a - q
                          /\ inventory'[g].Crude = inventory[g].Crude
                          /\ \A h \in OIL_TYPES \ {g} : inventory'[h] = inventory[h]
      ]_vars

\* An order Confirmed for exactly the stock there was: Refined is down to zero.
C4_Witness ==
    \E i \in DOMAIN sales :
        /\ sales[i].Status = "Confirmed"
        /\ ledger[sales[i].OilType].sold = sales[i].QuantityMT
        /\ ledger[sales[i].OilType].refined = sales[i].QuantityMT
        /\ inventory[sales[i].OilType].Refined = 0

\* C5: refining x of grade g with 0 < x <= Crude(g) moves x from Crude(g) to
\* Refined(g) and touches no other grade; with x > Crude(g) it changes nothing.
C5_RefineEffect ==
    [][\A g \in OIL_TYPES, x \in 0..MaxQty :
          Refine(g, x)
          => LET c == inventory[g].Crude IN
             /\ (0 < x /\ x <= c) =>
                   /\ inventory'[g].Crude = c - x
                   /\ inventory'[g].Refined = inventory[g].Refined + x
                   /\ inventory'[g].Crude + inventory'[g].Refined
                        = c + inventory[g].Refined
                   /\ \A h \in OIL_TYPES \ {g} : inventory'[h] = inventory[h]
             /\ x > c => inventory' = inventory
      ]_vars

\* Part of a grade's Crude was refined: less is left than a form may ask for.
C5_Witness ==
    \E g \in OIL_TYPES :
        /\ ledger[g].refined > 0
        /\ inventory[g].Refined = ledger[g].refined
        /\ inventory[g].Crude = ledger[g].credited - ledger[g].refined
        /\ inventory[g].Crude > 0
        /\ inventory[g].Crude < MaxQty

\* C6: a save of the purchase editor that sets Reached Factory only on orders
\* already stored as Reached Factory credits nothing.
C6_ArrivedAgainNoCredit ==
    [][\A e \in [DOMAIN purchases -> SHIPMENT_STATUSES] :
          (/\ UpdatePurchaseStatus(e)
           /\ \E i \in DOMAIN purchases : e[i] = RF
           /\ \A i \in DOMAIN purchases : e[i] = RF => purchases[i].Status = RF)
          => inventory' = inventory
      ]_vars

\* An order stored as Reached Factory and credited once, and a later save that
\* stored it as Reached Factory once more while it moved another order to At Port.
C6_Witness ==
    \E i, j \in DOMAIN purchases :
        /\ purchases[i].Status = RF
        /\ credits[purchases[i].uid] = 1
        /\ purchases[j].Status = "At Port"
        /\ inventory[purchases[i].OilType].Crude = purchases[i].QuantityMT
        /\ calls = 2
        /\ again = 1

\* C7: once no script run is under way, and no unit of stock was refined or
\* sold twice, the stored inventory holds the effect of every credit, refine
\* and Confirmed booking the handlers made.
C7_NoLostUpdate ==
    (/\ AllIdle
     /\ \A g \in OIL_TYPES : /\ ledger[g].refined <= ledger[g].credited
                             /\ ledger[g].sold <= ledger[g].refined)
    => \A g \in OIL_TYPES :
          /\ inventory[g].Crude = ledger[g].credited - ledger[g].refined
          /\ inventory[g].Refined = ledger[g].refined - ledger[g].sold

\* C8: after at most two status changes of the only purchase order, and nothing
\* refined, Crude of its grade holds the order's quantity if a change moved it
\* to Reached Factory and nothing otherwise.
C8_StatusCallsCreditOnce ==
    (/\ AllIdle
     /\ nextUid = 2
     /\ Len(purchases) = 1
     /\ calls <= 2
     /\ \A g \in OIL_TYPES : ledger[g].refined = 0)
    => inventory[purchases[1].OilType].Crude
         = IF credits[purchases[1].uid] >= 1 THEN purchases[1].QuantityMT ELSE 0

\* C9: no two purchases share a ShipmentID and no two sales orders an OrderID.
C9_UniqueIds ==
    /\ \A i, j \in DOMAIN purchases :
          i # j => purchases[i].ShipmentID # purchases[j].ShipmentID
    /\ \A i, j \in DOMAIN sales :
          i # j => sales[i].OrderID # sales[j].OrderID

\* C10: the inventory write of a purchase status save that credited nothing
\* leaves the stored inventory as it is.
C10_PlainStatusWrite ==
    [][\A s \in Sessions :
          (/\ pc[s] = "pur_save_inv"
           /\ pc'[s] = "done"
           /\ pendInv[s] = sessInv[s])
          => inventory' = inventory
      ]_vars

\* The quantities of the rows of a set of row numbers, added up.
RECURSIVE SumQty(_, _)
SumQty(rows, S) ==
    IF S = {} THEN 0
    ELSE LET i == CHOOSE j \in S : TRUE IN
         rows[i].QuantityMT + SumQty(rows, S \ {i})

\* The rows of grade g that a save moves to Reached Factory from another status.
NewArrivals(pur, e, g) ==
    {i \in DOMAIN pur : /\ pur[i].OilType = g
                        /\ pur[i].Status # RF
                        /\ e[i] = RF}

\* The Status column that a step stores for the rows it was given: the only
\* edit that a status save making the step can have saved.
StoredStatus(rows, stored) == [i \in DOMAIN rows |-> stored[i].Status]

\* C11: a save of the sales editor, whatever Status it stores for whichever
\* orders, changes nothing else: every inventory quantity stays, and so do the
\* SalePrice, QuantityMT, OilType and every other field of every order.
C11_SalesStatusOnly ==
    [][(/\ Len(sales') = Len(sales)
        /\ UpdateSalesStatus(StoredStatus(sales, sales')))
       => /\ inventory' = inventory
          /\ purchases' = purchases
          /\ \A i \in DOMAIN sales :
                /\ sales'[i].Status \in ORDER_STATUSES
                /\ \A f \in DOMAIN sales[i] \ {"Status"} :
                      sales'[i][f] = sales[i][f]
      ]_vars

\* An order booked as Under Process, with nothing in stock, and later saved as
\* Confirmed: it holds the price of its booking and nothing was deducted.
C11_Witness ==
    \E i \in DOMAIN sales :
        /\ sales[i].Status = "Confirmed"
        /\ sales[i].SalePrice > 0
        /\ ledger[sales[i].OilType].sold = 0
        /\ inventory = ZeroInventory

\* C12: in a step that is no save of the sales editor (a refine, a purchase
\* logged or arrived, a booking), every order stored as Under Process stays as
\* it is, and Refined of its grade goes down only by the quantity of a new
\* order that the step books as Confirmed.
C12_BacklogStays ==
    [][~(/\ Len(sales') = Len(sales)
         /\ UpdateSalesStatus(StoredStatus(sales, sales')))
       => \A i \in DOMAIN sales :
             sales[i].Status = "Under Process"
             => LET g == sales[i].OilType IN
                /\ i \in DOMAIN sales'
                /\ sales'[i] = sales[i]
                /\ inventory'[g].Refined < inventory[g].Refined
                   => /\ Len(sales') = Len(sales) + 1
                      /\ sales'[Len(sales')].Status = "Confirmed"
                      /\ sales'[Len(sales')].QuantityMT
                           = inventory[g].Refined - inventory'[g].Refined
      ]_vars

\* An order booked as Under Process when its grade had no Refined stock, still
\* Under Process after enough of the grade was refined to cover it.
C12_Witness ==
    \E i \in DOMAIN sales :
        /\ sales[i].Status = "Under Process"
        /\ ledger[sales[i].OilType].refined > 0
        /\ ledger[sales[i].OilType].sold = 0
        /\ inventory[sales[i].OilType].Refined >= sales[i].QuantityMT

\* C13: whatever calculate_sale_price is given, in app.py and in the Sales
\* Management page, it returns (0, 0) when the quantity or the distance is <= 0.
C13_DegenerateQuote ==
    (/\ quoted.file # ""
     /\ (quoted.quantity_mt <= 0 \/ quoted.distance_km <= 0))
    => /\ quoted.final_price = 0
       /\ quoted.price_per_lt = 0

\* C14: a new_purchase_form submitted with no supplier or a quantity <= 0, and
\* a new_sale_form submitted with no vendor, no destination, a quantity <= 0 or
\* a distance <= 0, leave the three files as they are: no step that changes a
\* file is such a submit.
C14_RejectedInputNoChange ==
    [][files' # files
       => /\ \A supplier \in BOOLEAN, q \in 0..MaxQty :
                (~supplier \/ q <= 0)
                => \A g \in OIL_TYPES : ~LogPurchase(supplier, g, q)
          /\ \A vendor \in BOOLEAN, dest \in BOOLEAN, dist \in Distances,
                q \in 0..MaxQty :
                (~vendor \/ ~dest \/ q <= 0 \/ dist <= 0)
                => \A g \in OIL_TYPES : ~BookOrder(vendor, dest, dist, g, q)
      ]_vars

\* A booking was turned down while its grade had Refined stock to sell, and no
\* order is stored.
C14_Witness ==
    /\ rejected = "new_sale_form"
    /\ sales = <<>>
    /\ \E g \in OIL_TYPES : /\ inventory[g].Refined > 0
                            /\ inventory[g].Refined = ledger[g].refined

\* C15: a purchase logged with a supplier and a quantity > 0 is appended with
\* Status In Transit and leaves every inventory quantity as it is; Crude of a
\* grade rises only in a step that moves an order of the grade to Reached
\* Factory.
C15_LoggedInTransit ==
    [][/\ \A supplier \in BOOLEAN, g \in OIL_TYPES, q \in 0..MaxQty :
             (LogPurchase(supplier, g, q) /\ supplier /\ q > 0)
             => /\ Len(purchases') = Len(purchases) + 1
                /\ \A i \in DOMAIN purchases : purchases'[i] = purchases[i]
                /\ purchases'[Len(purchases')].Status = "In Transit"
                /\ purchases'[Len(purchases')].OilType = g
                /\ purchases'[Len(purchases')].QuantityMT = q
                /\ inventory' = inventory
       /\ \A g \in OIL_TYPES :
             inventory'[g].Crude > inventory[g].Crude
             => \E i \in DOMAIN purchases :
                   /\ i \in DOMAIN purchases'
                   /\ purchases[i].OilType = g
                   /\ purchases[i].Status # RF
                   /\ purchases'[i].Status = RF
      ]_vars

\* Two purchases logged and In Transit, the inventory still all zero.
C15_Witness ==
    /\ Len(purchases) = 2
    /\ \A i \in DOMAIN purchases : purchases[i].Status = "In Transit"
    /\ inventory = ZeroInventory
    /\ calls = 0

\* C16: on one day and for one grade, app.py's calculate_sale_price returns a
\* larger final_price for a larger quantity at the same distance, and for a
\* larger distance at the same quantity (quantities and distances > 0, in
\* whole units).
C16_QuoteMonotone ==
    (/\ quoted.file = "app.py"
     /\ quoted.quantity_mt > 0
     /\ quoted.distance_km > 0)
    => /\ \A q \in 1..MaxQty :
             q > quoted.quantity_mt
             => calculate_sale_price(quoted.oil_type, q, quoted.distance_km,
                                     quoted.day).final_price > quoted.final_price
       /\ \A d \in 1..MaxDist :
             d > quoted.distance_km
             => calculate_sale_price(quoted.oil_type, quoted.quantity_mt, d,
                                     quoted.day).final_price > quoted.final_price

\* A price quoted for the least quantity and distance, with larger ones to
\* compare it with.
C16_Witness ==
    /\ quoted.file = "app.py"
    /\ quoted.quantity_mt = 1
    /\ quoted.distance_km = 1
    /\ quoted.final_price > 0
    /\ MaxQty > 1
    /\ MaxDist > 1

\* C17: once the only session's script run is over or cut short, a purchase
\* order stored as Reached Factory has its quantity in Crude of its grade (one
\* order, nothing refined).
C17_CreditWithStatus ==
    (/\ NoneRunning
     /\ started <= 1
     /\ Len(purchases) = 1
     /\ purchases[1].Status = RF
     /\ \A g \in OIL_TYPES : ledger[g].refined = 0)
    => inventory[purchases[1].OilType].Crude >= purchases[1].QuantityMT

\* C18: once the only session's script run is over or cut short, what was
\* taken from Refined of a grade for bookings is covered by the orders of the
\* grade that sales.csv holds.
C18_BookingAllOrNothing ==
    (NoneRunning /\ started <= 1)
    => \A g \in OIL_TYPES :
          ledger[g].sold
            <= SumQty(sales, {i \in DOMAIN sales : sales[i].OilType = g})

\* C19: in every step, Crude of a grade rises only by the quantities of the
\* orders of the grade that the step moves to Reached Factory, and falls only
\* by what the step adds to Refined of the grade; Refined of a grade rises only
\* by what the step takes from Crude of the grade, and falls only by the
\* quantity of an order of the grade that the step books as Confirmed; a refine
\* and a booking leave the other grades as they are.
C19_StockChain ==
    [][\A g \in OIL_TYPES :
          LET dc == inventory'[g].Crude - inventory[g].Crude
              dr == inventory'[g].Refined - inventory[g].Refined IN
          /\ dc > 0 => /\ dr = 0
                       /\ sales' = sales
                       /\ DOMAIN purchases' = DOMAIN purchases
                       /\ dc = SumQty(purchases,
                                      NewArrivals(purchases,
                                                  [i \in DOMAIN purchases |->
                                                      purchases'[i].Status], g))
          /\ dc < 0 => /\ dr = -dc
                       /\ purchases' = purchases
                       /\ sales' = sales
                       /\ \A h \in OIL_TYPES \ {g} : inventory'[h] = inventory[h]
          /\ dr > 0 => dc = -dr
          /\ dr < 0 => /\ dc = 0
                       /\ purchases' = purchases
                       /\ Len(sales') = Len(sales) + 1
                       /\ sales'[Len(sales')].OilType = g
                       /\ sales'[Len(sales')].Status = "Confirmed"
                       /\ sales'[Len(sales')].QuantityMT = -dr
                       /\ \A h \in OIL_TYPES \ {g} : inventory'[h] = inventory[h]
      ]_vars

\* A grade whose purchase arrived, was refined in part and sold from Refined,
\* while the other grades stayed at zero.
C19_Witness ==
    \E g \in OIL_TYPES :
        /\ ledger[g].sold > 0
        /\ ledger[g].refined < ledger[g].credited
        /\ inventory[g].Crude = ledger[g].credited - ledger[g].refined
        /\ inventory[g].Refined = ledger[g].refined - ledger[g].sold
        /\ \A h \in OIL_TYPES \ {g} : inventory[h] = ZeroInventory[h]

\* C20: a save of the purchase editor that changes the Status of two or more
\* orders adds to Crude of every grade the quantities of the orders of the
\* grade it moves to Reached Factory from another status, counts one credit
\* for each of them and none for the others, and leaves Refined as it is.
C20_SeveralArrivals ==
    [][LET e == StoredStatus(purchases, purchases') IN
          (/\ Len(purchases') = Len(purchases)
           /\ UpdatePurchaseStatus(e)
           /\ Cardinality({i \in DOMAIN purchases : e[i] # purchases[i].Status}) >= 2)
          => /\ \A g \in OIL_TYPES :
                   /\ inventory'[g].Crude
                        = inventory[g].Crude
                            + SumQty(purchases, NewArrivals(purchases, e, g))
                   /\ inventory'[g].Refined = inventory[g].Refined
             /\ \A i \in DOMAIN purchases :
                   credits'[purchases[i].uid]
                     = credits[purchases[i].uid]
                         + (IF purchases[i].Status # RF /\ e[i] = RF THEN 1 ELSE 0)
      ]_vars

\* Three purchases and one save: two orders of one grade moved to Reached
\* Factory and credited, the third moved to At Port.
C20_Witness ==
    /\ Len(purchases) = 3
    /\ nextUid = 4
    /\ runs = 4
    /\ \E i, j, k \in DOMAIN purchases :
          /\ i # j
          /\ purchases[i].Status = RF
          /\ purchases[j].Status = RF
          /\ purchases[k].Status = "At Port"
          /\ purchases[i].OilType = purchases[j].OilType
          /\ inventory[purchases[i].OilType].Crude
               = purchases[i].QuantityMT + purchases[j].QuantityMT
          /\ credits[purchases[i].uid] = 1
          /\ credits[purchases[j].uid] = 1
          /\ credits[purchases[k].uid] = 0

\* C21: a refine submitted with a quantity <= 0 is turned down with the
\* warning and leaves every inventory quantity and both other files as they
\* are; and a refine with any quantity never raises Crude and never lowers
\* Refined, of its grade or of another.
C21_RefineNothing ==
    [][\A g \in OIL_TYPES, x \in -1..MaxQty :
          Refine(g, x)
          => /\ x <= 0 => /\ rejected' = "refining_form warning"
                          /\ inventory' = inventory
                          /\ purchases' = purchases
                          /\ sales' = sales
             /\ \A h \in OIL_TYPES :
                   /\ inventory'[h].Crude <= inventory[h].Crude
                   /\ inventory'[h].Refined >= inventory[h].Refined
      ]_vars

\* A refine of nothing was turned down, and a refine of a grade went through
\* and left Crude of the grade to refine.
C21_Witness ==
    /\ rejected = "refining_form warning"
    /\ \E g \in OIL_TYPES :
          /\ ledger[g].refined > 0
          /\ inventory[g].Crude > 0
          /\ inventory[g].Crude = ledger[g].credited - ledger[g].refined
          /\ inventory[g].Refined = ledger[g].refined

====
